---- MODULE Spec2Model ----
(***************************************************************************)
(* A model of app.py: the Streamlit form of the Gemini TTS application,    *)
(* its two request builders (get_gemini_tts_single, get_gemini_tts_multi), *)
(* the response handler make_api_request and the key validator.            *)
(*                                                                         *)
(* Python strings are sequences of one-character strings, bytes are        *)
(* sequences of numbers in 0..255, and a JSON value is a record tagged by  *)
(* its Python type, so that the `in`, [] and len() of the handler can be   *)
(* computed as Python computes them, TypeError and KeyError included.      *)
(* The transcript alone, which may be 8000 characters long, is a sequence  *)
(* of runs, each a character and the number of times it is repeated.       *)
(***************************************************************************)
EXTENDS Integers, Sequences, FiniteSets, TLC

(***************************************************************************)
(* Python values                                                           *)
(***************************************************************************)

\* n copies of the character c
Fill(c, n) == [i \in 1..n |-> c]

\* Python's None and a bytes object
PyNone == [t |-> "None"]
PyBytes(b) == [t |-> "bytes", v |-> b]

\* JSON values as json.loads returns them
JNull == [t |-> "null"]
JNum(n) == [t |-> "num", v |-> n]
JStr(s) == [t |-> "str", v |-> s]
JList(l) == [t |-> "list", v |-> l]
JObj(d) == [t |-> "obj", v |-> d]

\* An evaluation that returns v, and one that raises exception e
Ok(v) == [exc |-> "none", v |-> v]
Raise(e) == [exc |-> e]

\* The characters of the string literals the handler uses as keys
KeyChars(k) ==
    CASE k = "candidates" -> <<"c","a","n","d","i","d","a","t","e","s">>
      [] k = "content" -> <<"c","o","n","t","e","n","t">>
      [] k = "parts" -> <<"p","a","r","t","s">>
      [] k = "inlineData" -> <<"i","n","l","i","n","e","D","a","t","a">>
      [] k = "data" -> <<"d","a","t","a">>
      [] k = "error" -> <<"e","r","r","o","r">>
      [] k = "message" -> <<"m","e","s","s","a","g","e">>
      [] k = "text" -> <<"t","e","x","t">>
      [] k = "mimeType" -> <<"m","i","m","e","T","y","p","e">>

\* a in b, for two Python strings: a is a substring of b
IsSubstring(a, b) ==
    \E i \in 0..(Len(b) - Len(a)) : SubSeq(b, i + 1, i + Len(a)) = a

\* A set of strings as a sequence (a dict's keys, in some order)
RECURSIVE SetToSeq(_)
SetToSeq(S) ==
    IF S = {} THEN <<>>
    ELSE LET x == CHOOSE y \in S : TRUE IN <<x>> \o SetToSeq(S \ {x})

\* `k in x`, k a string literal
PyContains(k, x) ==
    CASE x.t = "obj" -> Ok(k \in DOMAIN x.v)
      [] x.t = "list" ->
            Ok(\E i \in 1..Len(x.v) :
                  x.v[i].t = "str" /\ x.v[i].v = KeyChars(k))
      [] x.t = "str" -> Ok(IsSubstring(KeyChars(k), x.v))
      [] OTHER -> Raise("TypeError")

\* `x[k]`, k a string literal
PyGetKey(x, k) ==
    CASE x.t = "obj" -> IF k \in DOMAIN x.v THEN Ok(x.v[k]) ELSE Raise("KeyError")
      [] OTHER -> Raise("TypeError")

\* `x[0]`
PyGetFirst(x) ==
    CASE x.t = "list" -> IF Len(x.v) > 0 THEN Ok(x.v[1]) ELSE Raise("IndexError")
      [] x.t = "str" ->
            IF Len(x.v) > 0 THEN Ok(JStr(<<x.v[1]>>)) ELSE Raise("IndexError")
      [] x.t = "obj" -> Raise("KeyError")
      [] OTHER -> Raise("TypeError")

\* `len(x)`
PyLen(x) ==
    CASE x.t \in {"list", "str"} -> Ok(Len(x.v))
      [] x.t = "obj" -> Ok(Cardinality(DOMAIN x.v))
      [] OTHER -> Raise("TypeError")

\* The items `for part in x` visits
PyIter(x) ==
    CASE x.t = "list" -> Ok(x.v)
      [] x.t = "str" -> Ok([i \in 1..Len(x.v) |-> JStr(<<x.v[i]>>)])
      [] x.t = "obj" ->
            LET ks == SetToSeq(DOMAIN x.v)
            IN Ok([i \in 1..Len(ks) |-> JStr(KeyChars(ks[i]))])
      [] OTHER -> Raise("TypeError")

(***************************************************************************)
(* base64                                                                  *)
(***************************************************************************)

B64Chars ==
    <<"A","B","C","D","E","F","G","H","I","J","K","L","M","N","O","P",
      "Q","R","S","T","U","V","W","X","Y","Z","a","b","c","d","e","f",
      "g","h","i","j","k","l","m","n","o","p","q","r","s","t","u","v",
      "w","x","y","z","0","1","2","3","4","5","6","7","8","9","+","/">>

IsB64Char(c) == \E i \in 1..64 : B64Chars[i] = c

\* The 6-bit value of an alphabet character
B64Val(c) == (CHOOSE i \in 1..64 : B64Chars[i] = c) - 1

\* base64.b64encode: three bytes to four characters, "=" padding
RECURSIVE b64encode(_)
b64encode(b) ==
    IF Len(b) = 0 THEN <<>>
    ELSE IF Len(b) = 1 THEN
        <<B64Chars[(b[1] \div 4) + 1], B64Chars[((b[1] % 4) * 16) + 1], "=", "=">>
    ELSE IF Len(b) = 2 THEN
        <<B64Chars[(b[1] \div 4) + 1],
          B64Chars[((b[1] % 4) * 16 + (b[2] \div 16)) + 1],
          B64Chars[((b[2] % 16) * 4) + 1], "=">>
    ELSE
        <<B64Chars[(b[1] \div 4) + 1],
          B64Chars[((b[1] % 4) * 16 + (b[2] \div 16)) + 1],
          B64Chars[((b[2] % 16) * 4 + (b[3] \div 64)) + 1],
          B64Chars[(b[3] % 64) + 1]>> \o b64encode(SubSeq(b, 4, Len(b)))

\* binascii.a2b_base64 in its default, non-strict mode: characters outside
\* the alphabet are skipped, padding that completes a quad ends the input,
\* and an incomplete quad at the end is an error.  i is the position read,
\* quad_pos the place in the quad, leftchar the bits left over, pads the
\* padding seen in a row, out the bytes so far.
RECURSIVE a2b_base64(_, _, _, _, _, _)
a2b_base64(s, i, quad_pos, leftchar, pads, out) ==
    IF i > Len(s) THEN
        IF quad_pos # 0 THEN Raise("binascii.Error") ELSE Ok(out)
    ELSE IF s[i] = "=" THEN
        IF quad_pos >= 2 /\ quad_pos + pads + 1 >= 4 THEN Ok(out)
        ELSE a2b_base64(s, i + 1, quad_pos, leftchar,
                        IF quad_pos >= 2 THEN pads + 1 ELSE pads, out)
    ELSE IF ~IsB64Char(s[i]) THEN
        a2b_base64(s, i + 1, quad_pos, leftchar, pads, out)
    ELSE
        LET c == B64Val(s[i]) IN
        CASE quad_pos = 0 -> a2b_base64(s, i + 1, 1, c, 0, out)
          [] quad_pos = 1 ->
                a2b_base64(s, i + 1, 2, c % 16, 0,
                           Append(out, leftchar * 4 + (c \div 16)))
          [] quad_pos = 2 ->
                a2b_base64(s, i + 1, 3, c % 4, 0,
                           Append(out, leftchar * 16 + (c \div 4)))
          [] quad_pos = 3 ->
                a2b_base64(s, i + 1, 0, 0, 0, Append(out, leftchar * 64 + c))

\* The characters of the model that are outside ASCII
IsAscii(c) == c # "é"

\* base64.b64decode(x): a str is encoded to ASCII and decoded, anything that
\* is neither str nor bytes-like is a TypeError
b64decode(x) ==
    CASE x.t = "str" ->
            IF \E i \in 1..Len(x.v) : ~IsAscii(x.v[i]) THEN Raise("ValueError")
            ELSE a2b_base64(x.v, 1, 0, 0, 0, <<>>)
      [] OTHER -> Raise("TypeError")

(***************************************************************************)
(* The form's value sets                                                   *)
(***************************************************************************)

\* The keys of MODELS, and the keys of VOICES the model draws from
ModelNames == {"gemini-2.5-flash-preview-tts", "gemini-2.5-pro-preview-tts"}
VoiceNames == {"Zephyr", "Puck"}
SpeakerNames == {"Speaker1", "Host"}

\* `len(api_key) > 20` and `len(text_input) > 8000`
KeyLenFloor == 20
MaxChars == 8000

KeyPrefix == <<"A","I","z","a">>

\* API keys as the user may type them: empty, too short, of the least
\* accepted length, with a wrong prefix, with the prefix not at the start
ApiKeys ==
    {p \o Fill("k", n) :
        p \in {<<>>, KeyPrefix, <<"A","I","z","b">>},
        n \in {0, KeyLenFloor - 4, KeyLenFloor - 3}}
    \cup {<<"k">> \o KeyPrefix \o Fill("k", KeyLenFloor - 3)}

\* The keys validate_api_key is called on directly: longer ones too
ValidateKeys ==
    ApiKeys \cup {KeyPrefix \o Fill("k", KeyLenFloor - 2), KeyPrefix \o Fill("Z", 35)}

\* Transcripts: empty, blank, padded with whitespace, at the length limit
\* and one character over it
Run(c, n) == [c |-> c, n |-> n]
Texts ==
    {<<>>, <<Run(" ", 1)>>, <<Run("\n", 1), Run("\t", 1)>>, <<Run("a", 1)>>,
     <<Run(" ", 1), Run("a", 1), Run("\n", 1)>>,
     <<Run("a", MaxChars)>>, <<Run("a", MaxChars + 1)>>,
     <<Run(" ", 1), Run("a", MaxChars - 1), Run(" ", 1)>>,
     <<Run(" ", MaxChars + 1)>>}

\* The length of the audio byte strings a response carries, and their bytes
MaxAudioLen == 3
ByteValues == {0, 255}
AudioBytes == UNION {[1..n -> ByteValues] : n \in 0..MaxAudioLen}

\* The length of the speaker lists passed to get_gemini_tts_multi directly
MaxSpeakers == 2
Speakers == [name : SpeakerNames, voice : VoiceNames]
SpeakerLists == UNION {[1..n -> Speakers] : n \in 0..MaxSpeakers}

(***************************************************************************)
(* validate_api_key and str.strip                                          *)
(***************************************************************************)

\* str.startswith
StartsWith(s, p) == Len(s) >= Len(p) /\ SubSeq(s, 1, Len(p)) = p

\* validate_api_key with the length compared by >=
validate_api_key_ge(api_key) ==
    api_key # <<>> /\ Len(api_key) >= 20 /\ SubSeq(api_key, 1, 4) = <<"A","I","z","a">>

\* validate_api_key, by the truth value of what it returns (the empty key
\* itself, which is falsy, or a bool)
validate_api_key(api_key) ==
    api_key # <<>> /\ Len(api_key) > KeyLenFloor /\ StartsWith(api_key, KeyPrefix)

IsSpace(c) == c \in {" ", "\t", "\n"}

\* str.strip() of a transcript: the runs without the leading and the
\* trailing runs of whitespace
strip(s) ==
    IF \A i \in 1..Len(s) : IsSpace(s[i].c) THEN <<>>
    ELSE LET lo == CHOOSE i \in 1..Len(s) :
                      ~IsSpace(s[i].c) /\ \A j \in 1..(i - 1) : IsSpace(s[j].c)
             hi == CHOOSE i \in 1..Len(s) :
                      ~IsSpace(s[i].c) /\ \A j \in (i + 1)..Len(s) : IsSpace(s[j].c)
         IN SubSeq(s, lo, hi)

\* len() of a transcript: the lengths of its runs, added up
RECURSIVE TextLen(_)
TextLen(s) == IF s = <<>> THEN 0 ELSE s[1].n + TextLen(Tail(s))

(***************************************************************************)
(* The request builders                                                    *)
(***************************************************************************)

Url(model, api_key) ==
    [base |-> "https://generativelanguage.googleapis.com/v1beta/models/",
     model |-> model, method |-> ":generateContent", key |-> api_key]

Headers == [ContentType |-> "application/json"]

PrebuiltVoice(voice) == [prebuiltVoiceConfig |-> [voiceName |-> voice]]

\* The payload with the first voice instead of the voice passed
SinglePayload_firstVoice(text, voice) ==
    [contents |-> <<[parts |-> <<[text |-> text]>>]>>,
     generationConfig |->
        [responseModalities |-> <<"AUDIO">>,
         speechConfig |->
            [voiceConfig |-> [prebuiltVoiceConfig |-> [voiceName |-> "Zephyr"]]]]]

\* The payload of get_gemini_tts_single
SinglePayload(text, voice) ==
    [contents |-> <<[parts |-> <<[text |-> text]>>]>>,
     generationConfig |->
        [responseModalities |-> <<"AUDIO">>,
         speechConfig |-> [voiceConfig |-> PrebuiltVoice(voice)]]]

\* The loop with each entry inserted at the front
SpeakerConfigs_reversed(speakers) ==
    [i \in 1..Len(speakers) |->
        [speaker |-> speakers[Len(speakers) + 1 - i].name,
         voiceConfig |->
            [prebuiltVoiceConfig |->
                [voiceName |-> speakers[Len(speakers) + 1 - i].voice]]]]

\* The loop of get_gemini_tts_multi: one entry appended per speaker
SpeakerConfigs(speakers) ==
    [i \in 1..Len(speakers) |->
        [speaker |-> speakers[i].name,
         voiceConfig |-> PrebuiltVoice(speakers[i].voice)]]

\* The payload of get_gemini_tts_multi
MultiPayload(text, speakers) ==
    [contents |-> <<[parts |-> <<[text |-> text]>>]>>,
     generationConfig |->
        [responseModalities |-> <<"AUDIO">>,
         speechConfig |->
            [multiSpeakerVoiceConfig |->
                [speakerVoiceConfigs |-> SpeakerConfigs(speakers)]]]]

\* What get_gemini_tts_single hands to make_api_request
get_gemini_tts_single(text, api_key, model, voice) ==
    [url |-> Url(model, api_key), headers |-> Headers,
     payload |-> SinglePayload(text, voice)]

\* What get_gemini_tts_multi hands to make_api_request
get_gemini_tts_multi(text, api_key, model, speakers) ==
    [url |-> Url(model, api_key), headers |-> Headers,
     payload |-> MultiPayload(text, speakers)]

(***************************************************************************)
(* make_api_request                                                        *)
(***************************************************************************)

\* What requests.post does: it returns a response, whose json() returns a
\* value or raises, or it raises
Response(status, json) == [kind |-> "response", status_code |-> status, json |-> json]
PostRaises(e) == [kind |-> "raise", exc |-> e]
NoOutcome == [kind |-> "none"]

\* An st.error message: its fixed text and what is formatted into it
Msg(text, arg) == [text |-> text, arg |-> arg]

\* The outcome of the try block: the exception raised in it (or "none"),
\* the value returned, the messages displayed, whether json() was called
Done(ret, msgs, parsed) ==
    [exc |-> "none", ret |-> ret, errors |-> msgs, parsed |-> parsed]
Throws(e, parsed) == [exc |-> e, ret |-> PyNone, errors |-> <<>>, parsed |-> parsed]

\* `audio_data = part["inlineData"]["data"]; return base64.b64decode(audio_data)`
DecodePart(part) ==
    LET inl == PyGetKey(part, "inlineData") IN
    IF inl.exc # "none" THEN Raise(inl.exc) ELSE
    LET data == PyGetKey(inl.v, "data") IN
    IF data.exc # "none" THEN Raise(data.exc) ELSE
    LET dec == b64decode(data.v) IN
    IF dec.exc # "none" THEN Raise(dec.exc) ELSE Ok(PyBytes(dec.v))

\* The loop without its return: the last part with inlineData wins
RECURSIVE ScanParts_last(_, _)
ScanParts_last(items, i) ==
    IF i > Len(items) THEN Ok(PyNone) ELSE
    LET later == ScanParts_last(items, i + 1)
        has == PyContains("inlineData", items[i])
    IN IF later.exc = "none" /\ later.v.t = "bytes" THEN later
       ELSE IF has.exc # "none" THEN Raise(has.exc)
       ELSE IF has.v THEN DecodePart(items[i])
       ELSE later

\* `for part in ...: if "inlineData" in part: ... return`, from item i on
RECURSIVE ScanParts(_, _)
ScanParts(items, i) ==
    IF i > Len(items) THEN Ok(PyNone) ELSE
    LET has == PyContains("inlineData", items[i]) IN
    IF has.exc # "none" THEN Raise(has.exc)
    ELSE IF has.v THEN DecodePart(items[i])
    ELSE ScanParts(items, i + 1)

\* `if "content" in candidate and "parts" in candidate["content"]: for ...`
ScanCandidate(candidate) ==
    LET hasContent == PyContains("content", candidate) IN
    IF hasContent.exc # "none" THEN Raise(hasContent.exc) ELSE
    IF ~hasContent.v THEN Ok(PyNone) ELSE
    LET content == PyGetKey(candidate, "content") IN
    IF content.exc # "none" THEN Raise(content.exc) ELSE
    LET hasParts == PyContains("parts", content.v) IN
    IF hasParts.exc # "none" THEN Raise(hasParts.exc) ELSE
    IF ~hasParts.v THEN Ok(PyNone) ELSE
    LET parts == PyGetKey(content.v, "parts") IN
    IF parts.exc # "none" THEN Raise(parts.exc) ELSE
    LET items == PyIter(parts.v) IN
    IF items.exc # "none" THEN Raise(items.exc) ELSE ScanParts(items.v, 1)

\* The test without its len() half
HasCandidates_nolen(result) ==
    LET has == PyContains("candidates", result) IN
    IF has.exc # "none" THEN Raise(has.exc) ELSE Ok(has.v)

\* `if "candidates" in result and len(result["candidates"]) > 0`
HasCandidates(result) ==
    LET has == PyContains("candidates", result) IN
    IF has.exc # "none" THEN Raise(has.exc) ELSE
    IF ~has.v THEN Ok(FALSE) ELSE
    LET cands == PyGetKey(result, "candidates") IN
    IF cands.exc # "none" THEN Raise(cands.exc) ELSE
    LET n == PyLen(cands.v) IN
    IF n.exc # "none" THEN Raise(n.exc) ELSE Ok(n.v > 0)

\* The status-200 branch, given the value response.json() returned
ParseAudio(result) ==
    LET has == HasCandidates(result) IN
    IF has.exc # "none" THEN Raise(has.exc) ELSE
    IF ~has.v THEN Ok(PyNone) ELSE
    LET candidate == PyGetFirst(PyGetKey(result, "candidates").v) IN
    IF candidate.exc # "none" THEN Raise(candidate.exc)
    ELSE ScanCandidate(candidate.v)

\* The status-400 branch, given the value response.json() returned
BadRequest(error_data) ==
    LET has == PyContains("error", error_data) IN
    IF has.exc # "none" THEN Throws(has.exc, TRUE) ELSE
    IF ~has.v THEN
        Done(PyNone, <<Msg("Bad request - please check your input", "")>>, TRUE)
    ELSE
    LET err == PyGetKey(error_data, "error") IN
    IF err.exc # "none" THEN Throws(err.exc, TRUE) ELSE
    IF err.v.t # "obj" THEN Throws("AttributeError", TRUE) ELSE
    LET m == IF "message" \in DOMAIN err.v.v THEN err.v.v["message"]
             ELSE JStr(<<"B","a","d"," ","r","e","q","u","e","s","t">>)
    IN Done(PyNone, <<Msg("API Error: ", m)>>, TRUE)

\* The messages of the 401, 403 and 429 branches
StatusMessage_swapped(status) ==
    CASE status = 401 -> "Rate limit exceeded. Please wait a moment and try again."
      [] status = 403 -> "API access forbidden. Please check your API key permissions."
      [] status = 429 -> "Invalid API key. Please check your Gemini API key."

StatusMessage(status) ==
    CASE status = 401 -> "Invalid API key. Please check your Gemini API key."
      [] status = 403 -> "API access forbidden. Please check your API key permissions."
      [] status = 429 -> "Rate limit exceeded. Please wait a moment and try again."

\* The branches on response.status_code
OnStatus(response) ==
    CASE response.status_code = 200 ->
            IF response.json.exc # "none" THEN Throws(response.json.exc, TRUE)
            ELSE LET r == ParseAudio(response.json.v) IN
                 IF r.exc # "none" THEN Throws(r.exc, TRUE)
                 ELSE Done(r.v, <<>>, TRUE)
      [] response.status_code = 400 ->
            IF response.json.exc # "none" THEN Throws(response.json.exc, TRUE)
            ELSE BadRequest(response.json.v)
      [] response.status_code \in {401, 403, 429} ->
            Done(PyNone, <<Msg(StatusMessage(response.status_code), "")>>, FALSE)
      [] OTHER ->
            Done(PyNone, <<Msg("API Error: ", response.status_code)>>, FALSE)

\* The try block
TryBlock(outcome) ==
    IF outcome.kind = "raise" THEN Throws(outcome.exc, FALSE)
    ELSE OnStatus(outcome)

\* The exception classes of requests.exceptions
IsTimeout(e) == e \in {"ConnectTimeout", "ReadTimeout"}
IsRequestException(e) ==
    IsTimeout(e) \/ e \in {"ConnectionError", "requests.JSONDecodeError"}

\* The except clauses with a last clause that displays nothing
ExceptClauses_silent(t) ==
    [ret |-> t.ret,
     errors |->
        IF t.exc = "none" THEN t.errors
        ELSE IF t.exc \in {"ConnectTimeout", "ReadTimeout"} THEN
            <<Msg("Request timed out. Please try again.", "")>>
        ELSE IF t.exc \in {"ConnectionError", "requests.JSONDecodeError"} THEN
            <<Msg("Network error: ", t.exc)>>
        ELSE <<>>,
     parsed |-> t.parsed,
     caught |-> t.exc,
     raised |-> "none"]

\* The except clauses: what is returned, displayed and left uncaught
ExceptClauses(t) ==
    [ret |-> t.ret,
     errors |->
        IF t.exc = "none" THEN t.errors
        ELSE IF IsTimeout(t.exc) THEN
            <<Msg("Request timed out. Please try again.", "")>>
        ELSE IF IsRequestException(t.exc) THEN <<Msg("Network error: ", t.exc)>>
        ELSE <<Msg("Unexpected error: ", t.exc)>>,
     parsed |-> t.parsed,
     caught |-> t.exc,
     raised |-> "none"]

\* make_api_request from the moment requests.post returns or raises
make_api_request(outcome) == ExceptClauses(TryBlock(outcome))

(***************************************************************************)
(* What the server may answer                                              *)
(***************************************************************************)

EmptyObj == JObj([k \in {} |-> JNull])
Word(k) == JStr(KeyChars(k))

\* A part carrying inline audio, and one carrying text
InlinePart(data) == JObj([inlineData |-> JObj([mimeType |-> Word("data"), data |-> data])])
TextPart == JObj([text |-> Word("text")])

\* A candidate whose content has the given parts, and a body with one
\* such candidate
Candidate(parts) == JObj([content |-> JObj([parts |-> parts])])
WithParts(parts) == JObj([candidates |-> JList(<<Candidate(parts)>>)])

\* Well-formed bodies for the bytes b: the audio part alone, after a text
\* part, before a second audio part that carries other bytes, and in the
\* first of two candidates
AudioBody(b, shape) ==
    CASE shape = 1 -> WithParts(JList(<<InlinePart(JStr(b64encode(b)))>>))
      [] shape = 2 -> WithParts(JList(<<TextPart, InlinePart(JStr(b64encode(b)))>>))
      [] shape = 3 ->
            WithParts(JList(<<InlinePart(JStr(b64encode(b))), TextPart,
                              InlinePart(JStr(b64encode(b \o <<7>>)))>>))
      [] shape = 4 ->
            JObj([candidates |->
                JList(<<Candidate(JList(<<InlinePart(JStr(b64encode(b)))>>)),
                        Candidate(JList(<<InlinePart(JStr(b64encode(<<7>> \o b)))>>))>>)])
AudioShapes == 1..4

\* Bodies json() parses that do not have the expected shape
MalformedBodies ==
    <<EmptyObj,
      JObj([candidates |-> JList(<<>>)]),
      JObj([candidates |-> JList(<<EmptyObj>>)]),
      JObj([candidates |-> JList(<<JObj([content |-> EmptyObj])>>)]),
      WithParts(JList(<<>>)),
      WithParts(JList(<<TextPart>>)),
      JObj([error |-> JObj([message |-> Word("message")])]),
      JObj([candidates |-> Word("data")]),
      JObj([candidates |-> JList(<<Word("parts")>>)]),
      WithParts(Word("parts")),
      WithParts(JObj([text |-> JNull])),
      WithParts(JList(<<InlinePart(JStr(<<>>))>>)),
      \* from here on the handler raises
      WithParts(JList(<<JObj([inlineData |-> EmptyObj])>>)),
      WithParts(JList(<<JObj([inlineData |-> JNull])>>)),
      WithParts(JList(<<InlinePart(JNull)>>)),
      WithParts(JList(<<InlinePart(JNum(7))>>)),
      WithParts(JList(<<InlinePart(JStr(<<"Q", "Q">>))>>)),
      WithParts(JList(<<InlinePart(JStr(<<"Q">>))>>)),
      WithParts(JList(<<InlinePart(JStr(<<"é">>))>>)),
      WithParts(JList(<<TextPart, JNull>>)),
      WithParts(JList(<<Word("inlineData")>>)),
      WithParts(JObj([inlineData |-> JNull])),
      WithParts(Word("inlineData")),
      WithParts(JNull),
      JObj([candidates |-> JList(<<JObj([content |-> JNull])>>)]),
      JObj([candidates |-> JList(<<JObj([content |-> Word("parts")])>>)]),
      JObj([candidates |-> JList(<<Word("content")>>)]),
      JObj([candidates |-> JList(<<JNull>>)]),
      JObj([candidates |-> JObj([content |-> EmptyObj])]),
      JObj([candidates |-> EmptyObj]),
      JObj([candidates |-> JNull]),
      JObj([candidates |-> JNum(1)]),
      JList(<<Word("candidates")>>),
      JList(<<>>),
      Word("candidates"),
      JNum(0),
      JNull>>

\* Decodable data that is not the canonical encoding of its bytes
LenientBodies ==
    <<WithParts(JList(<<InlinePart(JStr(<<"Q", " ", "Q", "=", "=">>))>>)),
      WithParts(JList(<<InlinePart(JStr(<<"Q", "Q", "=", "=", "Q", "U", "J", "D">>))>>)),
      WithParts(JList(<<InlinePart(JStr(<<"=">>))>>))>>

\* What json() raises on a body that is not JSON: requests' own
\* JSONDecodeError, a RequestException, or (older requests) a ValueError
JsonErrors == {"requests.JSONDecodeError", "json.JSONDecodeError"}

\* Bodies of a status-400 response
ErrorBodies ==
    <<JObj([error |-> JObj([message |-> Word("message")])]),
      JObj([error |-> EmptyObj]),
      EmptyObj,
      JObj([error |-> Word("error")]),
      JObj([error |-> JNull]),
      JList(<<Word("error")>>),
      JNull>>

\* The bodies sent with the statuses whose branch does not read the body
AnyBodies ==
    <<Ok(AudioBody(<<77>>, 1)), Ok(EmptyObj), Raise("requests.JSONDecodeError")>>

OtherStatuses == {401, 403, 429, 500}

PostErrors == {"ConnectTimeout", "ReadTimeout", "ConnectionError", "ValueError"}

(***************************************************************************)
(* The form                                                                *)
(***************************************************************************)

VARIABLES
    api_key, selected_model, mode, selected_voice, text_input,
    speaker1_name, speaker1_voice, speaker2_name, speaker2_voice,
    generate_button,   \* what st.button returned in this run
    pc,                \* "idle", or "awaiting" inside requests.post
    caller,            \* "main", or "direct" for a call from outside main
    call,              \* the arguments of the request builder called
    key_check,         \* the key validate_api_key was called on, and its answer
    http_log,          \* the requests POSTed since the run or call began
    response,          \* what requests.post did
    audio_data,        \* what the request builder returned
    errors,            \* the st.error messages displayed, in order
    st_audio,          \* the data of the audio player, or None
    st_download,       \* the data of the download button, or None
    parsed,            \* whether response.json() was called
    caught,            \* the exception an except clause caught
    raised             \* the exception that left the run uncaught

widgets ==
    <<api_key, selected_model, mode, selected_voice, text_input,
      speaker1_name, speaker1_voice, speaker2_name, speaker2_voice>>
modewidgets ==
    <<selected_voice, text_input,
      speaker1_name, speaker1_voice, speaker2_name, speaker2_voice>>
outputs ==
    <<call, key_check, http_log, response, audio_data, errors,
      st_audio, st_download, parsed, caught, raised>>
vars == <<widgets, generate_button, pc, caller, outputs>>

NoCall == [fn |-> "none"]
NoKeyCheck == [called |-> FALSE]

\* A page freshly drawn: nothing requested, nothing displayed
Blank ==
    /\ call = NoCall
    /\ key_check = NoKeyCheck
    /\ http_log = <<>>
    /\ response = NoOutcome
    /\ audio_data = PyNone
    /\ errors = <<>>
    /\ st_audio = PyNone
    /\ st_download = PyNone
    /\ parsed = FALSE
    /\ caught = "none"
    /\ raised = "none"

\* The same of the page a run draws
Redrawn ==
    /\ call' = NoCall
    /\ key_check' = NoKeyCheck
    /\ http_log' = <<>>
    /\ response' = NoOutcome
    /\ audio_data' = PyNone
    /\ errors' = <<>>
    /\ st_audio' = PyNone
    /\ st_download' = PyNone
    /\ parsed' = FALSE
    /\ caught' = "none"
    /\ raised' = "none"

\* The widgets' defaults: the first model and voice, voice index 1 for the
\* second speaker, empty text fields
Init ==
    /\ api_key = <<>>
    /\ selected_model = "gemini-2.5-flash-preview-tts"
    /\ mode = "Single Speaker"
    /\ selected_voice = "Zephyr"
    /\ text_input = <<>>
    /\ speaker1_name = "Speaker1"
    /\ speaker1_voice = "Zephyr"
    /\ speaker2_name = "Speaker2"
    /\ speaker2_voice = "Puck"
    /\ generate_button = FALSE
    /\ pc = "idle"
    /\ caller \in {"main", "direct"}
    /\ Blank

\* A run of the script that a widget change started: the button returns
\* False, so the page shows the form alone
Rerun ==
    /\ pc = "idle"
    /\ caller = "main"
    /\ generate_button' = FALSE
    /\ pc' = "idle"
    /\ caller' = caller
    /\ Redrawn

SetApiKey(k) ==
    /\ Rerun /\ k # api_key /\ api_key' = k
    /\ UNCHANGED <<selected_model, mode, modewidgets>>

SetModel(m) ==
    /\ Rerun /\ m # selected_model /\ selected_model' = m
    /\ UNCHANGED <<api_key, mode, modewidgets>>

\* The two modes draw different widgets: those of the mode left are gone,
\* those of the mode entered start from their defaults
SetMode(m) ==
    /\ Rerun /\ m # mode /\ mode' = m
    /\ selected_voice' = "Zephyr" /\ text_input' = <<>>
    /\ speaker1_name' = "Speaker1" /\ speaker1_voice' = "Zephyr"
    /\ speaker2_name' = "Speaker2" /\ speaker2_voice' = "Puck"
    /\ UNCHANGED <<api_key, selected_model>>

SetVoice(v) ==
    /\ Rerun /\ mode = "Single Speaker" /\ v # selected_voice
    /\ selected_voice' = v
    /\ UNCHANGED <<api_key, selected_model, mode, text_input,
                   speaker1_name, speaker1_voice, speaker2_name, speaker2_voice>>

SetSpeaker1(n, v) ==
    /\ Rerun /\ mode # "Single Speaker"
    /\ (n = speaker1_name) # (v = speaker1_voice)
    /\ speaker1_name' = n /\ speaker1_voice' = v
    /\ UNCHANGED <<api_key, selected_model, mode, selected_voice, text_input,
                   speaker2_name, speaker2_voice>>

SetSpeaker2(n, v) ==
    /\ Rerun /\ mode # "Single Speaker"
    /\ (n = speaker2_name) # (v = speaker2_voice)
    /\ speaker2_name' = n /\ speaker2_voice' = v
    /\ UNCHANGED <<api_key, selected_model, mode, selected_voice, text_input,
                   speaker1_name, speaker1_voice>>

SetText(t) ==
    /\ Rerun /\ t # text_input /\ text_input' = t
    /\ UNCHANGED <<api_key, selected_model, mode, selected_voice,
                   speaker1_name, speaker1_voice, speaker2_name, speaker2_voice>>

\* `disabled=not (api_key and text_input.strip())`, as the page shows it
ButtonEnabled == api_key # <<>> /\ strip(text_input) # <<>>

\* The chain without its last check
LocalError_nolen(key, text) ==
    IF key = <<>> THEN "Please enter your Gemini API key"
    ELSE IF ~validate_api_key(key) THEN "Invalid API key format. Please check your key."
    ELSE IF strip(text) = <<>> THEN "Please enter some text to convert to speech"
    ELSE "none"

\* The chain of local checks: the message of the first that fails, or "none"
LocalError(key, text) ==
    IF key = <<>> THEN "Please enter your Gemini API key"
    ELSE IF ~validate_api_key(key) THEN "Invalid API key format. Please check your key."
    ELSE IF strip(text) = <<>> THEN "Please enter some text to convert to speech"
    ELSE IF TextLen(text) > MaxChars THEN
        "Text is too long. Please limit to ~8000 characters."
    ELSE "none"

\* The speakers list main builds
FormSpeakers ==
    <<[name |-> speaker1_name, voice |-> speaker1_voice],
      [name |-> speaker2_name, voice |-> speaker2_voice]>>

\* The builder call main makes, on the values of this run
FormCall(key, text) ==
    IF mode = "Single Speaker" THEN
        [fn |-> "get_gemini_tts_single", text |-> strip(text), api_key |-> key,
         model |-> selected_model, voice |-> selected_voice]
    ELSE
        [fn |-> "get_gemini_tts_multi", text |-> strip(text), api_key |-> key,
         model |-> selected_model, speakers |-> FormSpeakers]

\* The request a builder call POSTs
RequestOf(c) ==
    IF c.fn = "get_gemini_tts_single" THEN
        get_gemini_tts_single(c.text, c.api_key, c.model, c.voice)
    ELSE get_gemini_tts_multi(c.text, c.api_key, c.model, c.speakers)

\* The requests one call of make_api_request POSTs
Posts_again(request) == <<request, request>>

Posts(request) == <<request>>

\* The run a click on Generate Speech starts, up to requests.post.  The
\* button can be clicked only where the page shows it enabled; the run may
\* carry the edit of one text field that the click committed (key, text are
\* the values the run reads).
ClickGenerate(key, text) ==
    /\ pc = "idle"
    /\ caller = "main"
    /\ ButtonEnabled
    /\ api_key' = key
    /\ text_input' = text
    /\ generate_button' = TRUE
    /\ caller' = caller
    /\ key_check' = IF key = <<>> THEN NoKeyCheck
                    ELSE [called |-> TRUE, api_key |-> key,
                          accepted |-> validate_api_key(key)]
    /\ response' = NoOutcome
    /\ audio_data' = PyNone
    /\ st_audio' = PyNone
    /\ st_download' = PyNone
    /\ parsed' = FALSE
    /\ caught' = "none"
    /\ raised' = "none"
    /\ LET failed == LocalError(key, text) IN
       IF failed # "none" THEN
            /\ errors' = <<Msg(failed, "")>>
            /\ call' = NoCall
            /\ http_log' = <<>>
            /\ pc' = "idle"
       ELSE
            /\ errors' = <<>>
            /\ call' = FormCall(key, text)
            /\ http_log' = Posts(RequestOf(FormCall(key, text)))
            /\ pc' = "awaiting"
    /\ UNCHANGED <<selected_model, mode, selected_voice,
                   speaker1_name, speaker1_voice, speaker2_name, speaker2_voice>>

\* `if audio_data:`
Truthy_notNone(v) == v.t = "bytes"

Truthy(v) == v.t = "bytes" /\ Len(v.v) > 0

\* requests.post returns or raises and the call runs to its end: the
\* response is handled, and main draws the player or the failure message
Respond(outcome) ==
    /\ pc = "awaiting"
    /\ LET r == make_api_request(outcome) IN
        /\ response' = outcome
        /\ audio_data' = r.ret
        /\ parsed' = r.parsed
        /\ caught' = r.caught
        /\ raised' = r.raised
        /\ IF caller = "direct" \/ r.raised # "none" THEN
                /\ errors' = r.errors
                /\ st_audio' = PyNone
                /\ st_download' = PyNone
           ELSE IF Truthy(r.ret) THEN
                /\ errors' = r.errors
                /\ st_audio' = r.ret
                /\ st_download' = r.ret
           ELSE
                /\ errors' = r.errors \o
                     <<Msg("Failed to generate speech. Please check your settings and try again.", "")>>
                /\ st_audio' = PyNone
                /\ st_download' = PyNone
    /\ pc' = "idle"
    /\ UNCHANGED <<widgets, generate_button, caller, call, key_check, http_log>>

\* Every outcome of requests.post the model draws for a run of the form
RespondAny ==
    \/ \E e \in PostErrors : Respond(PostRaises(e))
    \/ \E st \in OtherStatuses, i \in DOMAIN AnyBodies :
            Respond(Response(st, AnyBodies[i]))
    \/ \E i \in DOMAIN ErrorBodies : Respond(Response(400, Ok(ErrorBodies[i])))
    \/ \E e \in JsonErrors, st \in {200, 400} : Respond(Response(st, Raise(e)))
    \/ \E i \in DOMAIN MalformedBodies : Respond(Response(200, Ok(MalformedBodies[i])))
    \/ \E i \in DOMAIN LenientBodies : Respond(Response(200, Ok(LenientBodies[i])))
    \/ \E b \in AudioBytes, shape \in AudioShapes :
            Respond(Response(200, Ok(AudioBody(b, shape))))

(***************************************************************************)
(* The functions called from outside main                                  *)
(***************************************************************************)

\* The arguments direct calls draw from
CallKeys == {k \in ApiKeys : Len(k) \in {0, KeyLenFloor + 1}}
CallTexts == {t \in Texts : TextLen(t) <= 1}

\* The outcomes drawn for a direct call
DirectOutcomes ==
    <<PostRaises("ReadTimeout"),
      Response(429, Ok(EmptyObj)),
      Response(200, Ok(AudioBody(<<255>>, 2)))>>

\* The module freshly imported: the functions keep nothing from one call
\* to the next, so each direct call is drawn from this state
Fresh == pc = "idle" /\ call = NoCall /\ key_check = NoKeyCheck

\* A builder called with arguments c, up to requests.post
CallBuilder(c) ==
    /\ Fresh
    /\ caller = "direct"
    /\ call' = c
    /\ http_log' = Posts(RequestOf(c))
    /\ pc' = "awaiting"
    /\ key_check' = NoKeyCheck
    /\ response' = NoOutcome
    /\ audio_data' = PyNone
    /\ errors' = <<>>
    /\ parsed' = FALSE
    /\ caught' = "none"
    /\ raised' = "none"
    /\ UNCHANGED <<widgets, generate_button, caller, st_audio, st_download>>

CallSingle(text, key, model, voice) ==
    CallBuilder([fn |-> "get_gemini_tts_single", text |-> text, api_key |-> key,
                 model |-> model, voice |-> voice])

CallMulti(text, key, model, speakers) ==
    CallBuilder([fn |-> "get_gemini_tts_multi", text |-> text, api_key |-> key,
                 model |-> model, speakers |-> speakers])

CallValidate(key) ==
    /\ Fresh
    /\ caller = "direct"
    /\ key_check' = [called |-> TRUE, api_key |-> key,
                     accepted |-> validate_api_key(key)]
    /\ call' = NoCall
    /\ http_log' = <<>>
    /\ response' = NoOutcome
    /\ audio_data' = PyNone
    /\ errors' = <<>>
    /\ parsed' = FALSE
    /\ caught' = "none"
    /\ raised' = "none"
    /\ UNCHANGED <<widgets, generate_button, pc, caller, st_audio, st_download>>

RespondDirect(outcome) == caller = "direct" /\ Respond(outcome)

Next ==
    \/ \E k \in ApiKeys : SetApiKey(k)
    \/ \E m \in ModelNames : SetModel(m)
    \/ \E m \in {"Single Speaker", "Multi Speaker (up to 2)"} : SetMode(m)
    \/ \E v \in VoiceNames : SetVoice(v)
    \/ \E n \in {"Speaker1", "Host"}, v \in VoiceNames : SetSpeaker1(n, v)
    \/ \E n \in {"Speaker2", "Host"}, v \in VoiceNames : SetSpeaker2(n, v)
    \/ \E t \in Texts : SetText(t)
    \/ \E k \in ApiKeys : ClickGenerate(k, text_input)
    \/ \E t \in Texts : ClickGenerate(api_key, t)
    \/ caller = "main" /\ pc = "awaiting" /\ RespondAny
    \/ caller = "direct" /\ Fresh /\
            \E t \in CallTexts, k \in CallKeys, m \in ModelNames, v \in VoiceNames :
                CallSingle(t, k, m, v)
    \/ caller = "direct" /\ Fresh /\
            \E t \in CallTexts, k \in CallKeys, m \in ModelNames, sp \in SpeakerLists :
                CallMulti(t, k, m, sp)
    \/ caller = "direct" /\ Fresh /\ \E k \in ValidateKeys : CallValidate(k)
    \/ caller = "direct" /\ pc = "awaiting" /\
            \E i \in DOMAIN DirectOutcomes : RespondDirect(DirectOutcomes[i])

Spec == Init /\ [][Next]_vars

(***************************************************************************)
(* The properties                                                          *)
(***************************************************************************)

\* The request POSTed for the builder call in progress or just returned
Posted == http_log[1]

FailedText == "Failed to generate speech. Please check your settings and try again."

\* The messages make_api_request itself displayed: all but main's own
OwnErrors == SelectSeq(errors, LAMBDA m : m.text # FailedText)

\* A response with the given status has been handled
Handled(status) ==
    /\ pc = "idle"
    /\ response.kind = "response"
    /\ response.status_code = status

\* C1: the body get_gemini_tts_single builds carries the voice passed at
\* generationConfig.speechConfig.voiceConfig.prebuiltVoiceConfig.voiceName
\* and the text passed at contents[0].parts[0].text, and that body is the
\* one POSTed, whatever the text, model, key and voice.
C1_SinglePayload ==
    call.fn = "get_gemini_tts_single" =>
        /\ Len(http_log) = 1
        /\ Posted.payload.generationConfig.speechConfig.voiceConfig
                 .prebuiltVoiceConfig.voiceName = call.voice
        /\ Len(Posted.payload.contents) = 1
        /\ Len(Posted.payload.contents[1].parts) = 1
        /\ Posted.payload.contents[1].parts[1].text = call.text

C1_Witness ==
    /\ call.fn = "get_gemini_tts_single"
    /\ caller = "main" /\ generate_button /\ pc = "awaiting"
    /\ call.voice = "Puck"
    /\ call.text = <<Run("a", MaxChars)>>
    /\ Len(http_log) = 1

\* C2: the speakerVoiceConfigs get_gemini_tts_multi builds has one entry per
\* speaker passed, in the order passed, entry i with speaker i's name and
\* voice; from the form these are exactly two, speaker 1 then speaker 2.
C2_SpeakerConfigs ==
    call.fn = "get_gemini_tts_multi" =>
        /\ Len(http_log) = 1
        /\ LET configs == Posted.payload.generationConfig.speechConfig
                                .multiSpeakerVoiceConfig.speakerVoiceConfigs
           IN /\ Len(configs) = Len(call.speakers)
              /\ \A i \in 1..Len(configs) :
                    /\ configs[i].speaker = call.speakers[i].name
                    /\ configs[i].voiceConfig.prebuiltVoiceConfig.voiceName
                          = call.speakers[i].voice
              /\ caller = "main" =>
                    /\ Len(configs) = 2
                    /\ configs[1].speaker = speaker1_name
                    /\ configs[1].voiceConfig.prebuiltVoiceConfig.voiceName
                          = speaker1_voice
                    /\ configs[2].speaker = speaker2_name
                    /\ configs[2].voiceConfig.prebuiltVoiceConfig.voiceName
                          = speaker2_voice

C2_Witness ==
    /\ call.fn = "get_gemini_tts_multi"
    /\ caller = "main" /\ generate_button /\ pc = "awaiting"
    /\ speaker1_name = "Host" /\ speaker1_voice = "Puck"
    /\ speaker2_name = "Speaker2" /\ speaker2_voice = "Zephyr"
    /\ Len(Posted.payload.generationConfig.speechConfig
                 .multiSpeakerVoiceConfig.speakerVoiceConfigs) = 2

\* C3: a 429 response displays the rate-limit message and a 401 response the
\* invalid-key message; either returns None, without parsing the body and
\* without audio, whatever the body is.
C3_StatusMessages ==
    /\ Handled(429) =>
          /\ OwnErrors = <<Msg("Rate limit exceeded. Please wait a moment and try again.", "")>>
          /\ audio_data = PyNone /\ ~parsed /\ st_audio = PyNone
    /\ Handled(401) =>
          /\ OwnErrors = <<Msg("Invalid API key. Please check your Gemini API key.", "")>>
          /\ audio_data = PyNone /\ ~parsed /\ st_audio = PyNone

C3_Witness ==
    /\ Handled(429)
    /\ generate_button
    /\ response.json = Ok(AudioBody(<<77>>, 1))
    /\ audio_data = PyNone

\* C4: validate_api_key accepts a key exactly when the key has at least 21
\* characters and begins with "AIza".
C4_ValidateKey ==
    key_check.called =>
        (key_check.accepted <=>
            /\ Len(key_check.api_key) >= 21
            /\ key_check.api_key[1] = "A" /\ key_check.api_key[2] = "I"
            /\ key_check.api_key[3] = "z" /\ key_check.api_key[4] = "a")

C4_Witness ==
    /\ key_check.called
    /\ Len(key_check.api_key) = 21
    /\ key_check.accepted

\* The body is a JSON object without `candidates`, or with an empty list there
NoCandidates(json) ==
    /\ json.exc = "none"
    /\ json.v.t = "obj"
    /\ \/ "candidates" \notin DOMAIN json.v.v
       \/ /\ json.v.v["candidates"].t = "list"
          /\ Len(json.v.v["candidates"].v) = 0

\* C5: a 200 response whose body has no `candidates` field, or an empty
\* `candidates` list, makes make_api_request return None, and no exception
\* is raised on the way.
C5_NoCandidates ==
    (Handled(200) /\ NoCandidates(response.json)) =>
        /\ audio_data = PyNone
        /\ caught = "none"
        /\ raised = "none"
        /\ OwnErrors = <<>>

C5_Witness ==
    /\ Handled(200)
    /\ response.json = Ok(JObj([candidates |-> JList(<<>>)]))
    /\ audio_data = PyNone

\* A part of the expected shape: an object whose inlineData is an object
\* whose data is a string
AudioPart(part) ==
    /\ part.t = "obj"
    /\ "inlineData" \in DOMAIN part.v
    /\ part.v["inlineData"].t = "obj"
    /\ "data" \in DOMAIN part.v["inlineData"].v
    /\ part.v["inlineData"].v["data"].t = "str"

\* The parts of the first candidate, where the body has them as a list
HasPartsList(json) ==
    /\ json.exc = "none"
    /\ json.v.t = "obj"
    /\ "candidates" \in DOMAIN json.v.v
    /\ json.v.v["candidates"].t = "list"
    /\ Len(json.v.v["candidates"].v) > 0
    /\ json.v.v["candidates"].v[1].t = "obj"
    /\ "content" \in DOMAIN json.v.v["candidates"].v[1].v
    /\ json.v.v["candidates"].v[1].v["content"].t = "obj"
    /\ "parts" \in DOMAIN json.v.v["candidates"].v[1].v["content"].v
    /\ json.v.v["candidates"].v[1].v["content"].v["parts"].t = "list"
PartsOf(json) == json.v.v["candidates"].v[1].v["content"].v["parts"].v

\* The body has the shape candidates[0].content.parts[*].inlineData.data
ExpectedShape(json) ==
    /\ HasPartsList(json)
    /\ \E i \in 1..Len(PartsOf(json)) : AudioPart(PartsOf(json)[i])

\* The body is JSON of the right types all the way down to a field that is
\* absent: the mismatches the handler's membership tests find
MissingField(json) ==
    /\ json.exc = "none"
    /\ json.v.t = "obj"
    /\ \/ "candidates" \notin DOMAIN json.v.v
       \/ /\ json.v.v["candidates"].t = "list"
          /\ \/ Len(json.v.v["candidates"].v) = 0
             \/ /\ json.v.v["candidates"].v[1].t = "obj"
                /\ \/ "content" \notin DOMAIN json.v.v["candidates"].v[1].v
                   \/ /\ json.v.v["candidates"].v[1].v["content"].t = "obj"
                      /\ "parts" \notin
                            DOMAIN json.v.v["candidates"].v[1].v["content"].v
                   \/ /\ HasPartsList(json)
                      /\ \A i \in 1..Len(PartsOf(json)) :
                            /\ PartsOf(json)[i].t = "obj"
                            /\ "inlineData" \notin DOMAIN PartsOf(json)[i].v

\* C6 as claimed: on a 200 response, every mismatch with the expected shape
\* gives None and make_api_request displays nothing itself.
C6_SilentOnAnyMismatch ==
    (Handled(200) /\ ~ExpectedShape(response.json)) =>
        /\ audio_data = PyNone
        /\ OwnErrors = <<>>

\* C6 as amended: on a 200 response, every mismatch with the expected shape
\* gives None.  Nothing is displayed by make_api_request where a field is
\* absent and a membership test finds it so; where the mismatch makes the
\* handler raise, the except clause displays one message, "Network error"
\* or "Unexpected error".
C6_NoAudioOnMismatch ==
    (Handled(200) /\ ~ExpectedShape(response.json)) =>
        /\ audio_data = PyNone
        /\ st_audio = PyNone
        /\ raised = "none"
        /\ MissingField(response.json) => (caught = "none" /\ OwnErrors = <<>>)
        /\ caught = "none" => OwnErrors = <<>>
        /\ caught # "none" =>
              /\ Len(OwnErrors) = 1
              /\ OwnErrors[1].text \in {"Network error: ", "Unexpected error: "}
              /\ OwnErrors[1].arg = caught

C6_Witness ==
    /\ Handled(200)
    /\ generate_button
    /\ response.json = Ok(WithParts(JList(<<JObj([inlineData |-> EmptyObj])>>)))
    /\ audio_data = PyNone
    /\ caught = "KeyError"
    /\ Len(errors) = 2

\* C7: a 200 response whose first candidate has a part with inlineData.data
\* the base64 encoding of bytes b makes make_api_request return b, and with
\* several such parts the bytes of the first one of the first candidate.
C7_RoundTrip ==
    \A b \in AudioBytes, shape \in AudioShapes :
        (Handled(200) /\ response.json = Ok(AudioBody(b, shape))) =>
            audio_data = PyBytes(b)

C7_Witness ==
    /\ Handled(200)
    /\ response.json = Ok(AudioBody(<<0, 255, 255>>, 3))
    /\ audio_data = PyBytes(<<0, 255, 255>>)
    /\ st_audio = PyBytes(<<0, 255, 255>>)

\* The local checks, stated on the values of the run
KeyPresent == api_key # <<>>
KeyFormatOk ==
    Len(api_key) >= 21 /\ SubSeq(api_key, 1, 4) = <<"A", "I", "z", "a">>
TextPresent == \E i \in 1..Len(text_input) : text_input[i].c \notin {" ", "\t", "\n"}
TextFits == TextLen(text_input) <= 8000

\* C8: a run started by Generate Speech POSTs only when the key is present
\* and well-formed and the text is present and at most 8000 characters;
\* otherwise it displays the one local error that names a failed check and
\* sends nothing.
C8_LocalChecks ==
    (caller = "main" /\ generate_button) =>
        /\ http_log # <<>> <=> (KeyPresent /\ KeyFormatOk /\ TextPresent /\ TextFits)
        /\ http_log = <<>> =>
              /\ pc = "idle"
              /\ Len(errors) = 1
              /\ \/ errors[1].text = "Please enter your Gemini API key" /\ ~KeyPresent
                 \/ /\ errors[1].text = "Invalid API key format. Please check your key."
                    /\ ~KeyFormatOk
                 \/ /\ errors[1].text = "Please enter some text to convert to speech"
                    /\ ~TextPresent
                 \/ /\ errors[1].text = "Text is too long. Please limit to ~8000 characters."
                    /\ ~TextFits

C8_Witness ==
    /\ caller = "main" /\ generate_button
    /\ KeyPresent /\ KeyFormatOk /\ TextPresent /\ ~TextFits
    /\ http_log = <<>>
    /\ errors = <<Msg("Text is too long. Please limit to ~8000 characters.", "")>>

\* C9: a run or call POSTs at most once; the step that handles the outcome,
\* failure or not, sends nothing more and returns control; and a run that
\* no click started sends nothing.
C9_NoRetry ==
    [][/\ Len(http_log') <= 1
       /\ pc = "awaiting" => (http_log' = http_log /\ pc' = "idle")
       /\ (caller = "main" /\ ~generate_button') => http_log' = <<>>]_vars

C9_Witness ==
    /\ Handled(500)
    /\ generate_button
    /\ Len(http_log) = 1
    /\ Len(errors) = 2

\* C10: a run started by Generate Speech that has ended has left no
\* exception uncaught, and either shows the audio player and the download
\* button with the same non-empty bytes, or has displayed an error message.
C10_TwoOutcomes ==
    (caller = "main" /\ generate_button /\ pc = "idle") =>
        /\ raised = "none"
        /\ \/ /\ st_audio.t = "bytes" /\ Len(st_audio.v) > 0
              /\ st_download = st_audio
              /\ st_audio = audio_data
           \/ /\ Len(errors) >= 1
              /\ st_audio = PyNone /\ st_download = PyNone

C10_Witness ==
    /\ caller = "main" /\ generate_button /\ pc = "idle"
    /\ Handled(200)
    /\ audio_data = PyBytes(<<>>)
    /\ st_audio = PyNone
    /\ errors = <<Msg(FailedText, "")>>
====
